---- MODULE Spec2Model ----
(***************************************************************************)
(* Model of the crosh mirror mutators (npm, pip, cargo, Docker, Go).        *)
(*                                                                         *)
(* A text file is a TLA+ string holding its bytes, "\n" included; the      *)
(* line algorithms are computed on it the way the Go code computes them    *)
(* (strings.Split, TrimSpace, HasPrefix, Contains, Join).  daemon.json is  *)
(* a JSON document: its kind, its members in file order and whether its    *)
(* bytes are those json.MarshalIndent(_, "", "  ") would write.            *)
(*                                                                         *)
(* The mutators share no state (each owns one file), so a behaviour is a   *)
(* session of calls on the mutator the dispatcher selected; hist records   *)
(* each call with the state it found, for the properties that relate       *)
(* consecutive calls.                                                      *)
(***************************************************************************)
EXTENDS Integers, Sequences, FiniteSets, TLC

VARIABLES
    selected,   \* the mutator under call: "npm", "pip", "cargo", "docker", "go"
    file,       \* the mutator's target file: [exists, data, mode]
    backup,     \* the ".backup" sibling of the target file
    dir,        \* whether the parent directory of the target file exists
    goproxy,    \* the GOPROXY variable of the process: [set, val]
    desktop,    \* whether isDockerDesktop() holds on this host
    hist        \* the calls made so far, each with the state it started from

vars == <<selected, file, backup, dir, goproxy, desktop, hist>>

\* ------------------------------------------------------------------ bounds

\* Calls per session.
MaxCalls == 3
\* Calls per session that starts from an absent file, an empty file or one of
\* the documented example files.
MaxScenarioCalls == 4
\* Lines (members, for daemon.json) of a generated starting file.
MaxLines == 2

\* ----------------------------------------------------------- Go's strings

Min(S) == CHOOSE x \in S : \A y \in S : x <= y

\* s[i:] in Go terms (1-based here): the bytes from position i on.
From(s, i) == SubSeq(s, i, Len(s))

HasPrefix(s, p) == Len(s) >= Len(p) /\ SubSeq(s, 1, Len(p)) = p

HasSuffix(s, p) == Len(s) >= Len(p) /\ SubSeq(s, Len(s) - Len(p) + 1, Len(s)) = p

Contains(s, sub) ==
    \E i \in 1..(Len(s) - Len(sub) + 1) : SubSeq(s, i, i + Len(sub) - 1) = sub

TrimPrefix(s, p) == IF HasPrefix(s, p) THEN From(s, Len(p) + 1) ELSE s

\* The white space strings.TrimSpace removes (the ASCII part).
IsSpace(c) == c \in {" ", "\t", "\n", "\r"}

TrimSpace(s) ==
    LET keep == {i \in 1..Len(s) : ~IsSpace(SubSeq(s, i, i))}
    IN  IF keep = {} THEN ""
        ELSE SubSeq(s, Min(keep), CHOOSE x \in keep : \A y \in keep : y <= x)

\* strings.Trim(s, cutset) for a one-byte cutset.
Trim(s, c) ==
    LET keep == {i \in 1..Len(s) : SubSeq(s, i, i) # c}
    IN  IF keep = {} THEN ""
        ELSE SubSeq(s, Min(keep), CHOOSE x \in keep : \A y \in keep : y <= x)

\* strings.Split(s, "\n"): one more element than s has newlines.
RECURSIVE Split(_)
Split(s) ==
    LET nl == {i \in 1..Len(s) : SubSeq(s, i, i) = "\n"}
    IN  IF nl = {} THEN <<s>>
        ELSE <<SubSeq(s, 1, Min(nl) - 1)>> \o Split(From(s, Min(nl) + 1))

\* strings.Join(lines, "\n").
RECURSIVE Join(_)
Join(lines) ==
    IF lines = <<>> THEN ""
    ELSE IF Len(lines) = 1 THEN lines[1]
    ELSE lines[1] \o "\n" \o Join(Tail(lines))

\* strings.SplitN(s, "=", 2): s cut at its first "=", or s alone.
SplitN2(s) ==
    LET eq == {i \in 1..Len(s) : SubSeq(s, i, i) = "="}
    IN  IF eq = {} THEN <<s>>
        ELSE <<SubSeq(s, 1, Min(eq) - 1), From(s, Min(eq) + 1)>>

\* ----------------------------------------------------------- file system

\* mode: "rw", or "ro" (a write is refused), or "wo" (a read is refused).
NoFile(empty) == [exists |-> FALSE, data |-> empty, mode |-> "rw"]

\* os.ReadFile: err is "nil", "notexist" or "other".
ReadFile(f) ==
    IF ~f.exists THEN [err |-> "notexist", data |-> f.data]
    ELSE IF f.mode = "wo" THEN [err |-> "other", data |-> f.data]
    ELSE [err |-> "nil", data |-> f.data]

\* os.WriteFile(path, data, 0644): truncates an existing file, keeping its
\* mode, or creates one.
WriteFile(f, data) ==
    IF f.exists /\ f.mode = "ro" THEN [err |-> "other", file |-> f]
    ELSE [err |-> "nil",
          file |-> [exists |-> TRUE, data |-> data,
                    mode |-> IF f.exists THEN f.mode ELSE "rw"]]

\* os.Remove of a file in a writable directory.
Remove(f, empty) == NoFile(empty)

\* ------------------------------------------------------- call results

\* The part of the world a call reads and writes.
World == [file |-> file, backup |-> backup, dir |-> dir, goproxy |-> goproxy]

\* What a call returns and leaves: err is "nil", an error label, or "panic".
Result(w, err, enabled, desc) ==
    [world |-> w, err |-> err, enabled |-> enabled, desc |-> desc]

\* A call that returns only an error value.
Done(w, err) == Result(w, err, FALSE, "")

NoArg == <<>>

\* ------------------------------------------------------------ npm (.npmrc)

\* NPMEnableLoop replacing the first registry= line only.
RECURSIVE NPMEnableLoopFirstOnly(_, _)
NPMEnableLoopFirstOnly(lines, registryLine) ==
    IF lines = <<>> THEN <<>>
    ELSE LET line == Head(lines)
             trimmed == TrimSpace(line)
         IN  IF HasPrefix(trimmed, "registry=")
             THEN <<registryLine>>
                  \o SelectSeq(Tail(lines), LAMBDA l : TrimSpace(l) # "")
             ELSE (IF trimmed # "" THEN <<line>> ELSE <<>>)
                  \o NPMEnableLoopFirstOnly(Tail(lines), registryLine)

RECURSIVE NPMEnableLoop(_, _)
NPMEnableLoop(lines, registryLine) ==
    IF lines = <<>> THEN <<>>
    ELSE LET line == Head(lines)
             trimmed == TrimSpace(line)
         IN  (IF HasPrefix(trimmed, "registry=") THEN <<registryLine>>
              ELSE IF trimmed # "" THEN <<line>>
              ELSE <<>>)
             \o NPMEnableLoop(Tail(lines), registryLine)

\* The bytes NPMMirror.Enable writes over existingContent.
NPMEnableContent(existingContent, registryURL) ==
    LET lines == Split(existingContent)
        registryLine == "registry=" \o registryURL
        hasRegistry ==
            \E i \in 1..Len(lines) : HasPrefix(TrimSpace(lines[i]), "registry=")
        newLines == NPMEnableLoop(lines, registryLine)
                    \o (IF hasRegistry THEN <<>> ELSE <<registryLine>>)
    IN  Join(newLines) \o "\n"

NPMEnable(w, registryURL) ==
    LET rd == ReadFile(w.file)
        existingContent == IF rd.err = "nil" THEN rd.data ELSE ""
        wr == WriteFile(w.file, NPMEnableContent(existingContent, registryURL))
    IN  IF wr.err # "nil" THEN Done(w, "write")
        ELSE Done([w EXCEPT !.file = wr.file], "nil")

\* NPMDisableLoop without the test for a blank line.
RECURSIVE NPMDisableLoopKeepsBlank(_)
NPMDisableLoopKeepsBlank(lines) ==
    IF lines = <<>> THEN <<>>
    ELSE (IF ~HasPrefix(TrimSpace(Head(lines)), "registry=") THEN <<Head(lines)>>
          ELSE <<>>)
         \o NPMDisableLoopKeepsBlank(Tail(lines))

RECURSIVE NPMDisableLoop(_)
NPMDisableLoop(lines) ==
    IF lines = <<>> THEN <<>>
    ELSE LET line == Head(lines)
             trimmed == TrimSpace(line)
         IN  (IF ~HasPrefix(trimmed, "registry=") /\ trimmed # "" THEN <<line>>
              ELSE <<>>)
             \o NPMDisableLoop(Tail(lines))

\* NPMDisable writing the file back also when no line is left.
NPMDisableKeepsFile(w) ==
    LET rd == ReadFile(w.file)
        wr == WriteFile(w.file, Join(NPMDisableLoop(Split(rd.data))) \o "\n")
    IN  IF rd.err = "notexist" THEN Done(w, "nil")
        ELSE IF rd.err # "nil" THEN Done(w, "read")
        ELSE IF wr.err # "nil" THEN Done(w, "write")
        ELSE Done([w EXCEPT !.file = wr.file], "nil")

NPMDisable(w) ==
    LET rd == ReadFile(w.file)
        newLines == NPMDisableLoop(Split(rd.data))
        wr == WriteFile(w.file, Join(newLines) \o "\n")
    IN  IF rd.err = "notexist" THEN Done(w, "nil")
        ELSE IF rd.err # "nil" THEN Done(w, "read")
        ELSE IF Len(newLines) > 0
             THEN IF wr.err # "nil" THEN Done(w, "write")
                  ELSE Done([w EXCEPT !.file = wr.file], "nil")
             ELSE Done([w EXCEPT !.file = Remove(w.file, "")], "nil")

\* The first line whose trimmed form starts with "registry=", or 0.
NPMFirstRegistry(lines) ==
    LET hit == {i \in 1..Len(lines) : HasPrefix(TrimSpace(lines[i]), "registry=")}
    IN  IF hit = {} THEN 0 ELSE Min(hit)

NPMStatus(w) ==
    LET rd == ReadFile(w.file)
        lines == Split(rd.data)
        i == NPMFirstRegistry(lines)
    IN  IF rd.err = "notexist" THEN Result(w, "nil", FALSE, "default registry")
        ELSE IF rd.err # "nil" THEN Result(w, "read", FALSE, "")
        ELSE IF i # 0
             THEN Result(w, "nil", TRUE, TrimPrefix(TrimSpace(lines[i]), "registry="))
             ELSE Result(w, "nil", FALSE, "default registry")

\* ------------------------------------------- Go (GOPROXY and the shell rc)

RECURSIVE GoEnableLoop(_, _)
GoEnableLoop(lines, exportLine) ==
    IF lines = <<>> THEN <<>>
    ELSE (IF Contains(Head(lines), "export GOPROXY=") THEN <<exportLine>>
          ELSE <<Head(lines)>>)
         \o GoEnableLoop(Tail(lines), exportLine)

\* The bytes GoMirror.Enable writes over existingContent.
GoEnableContent(existingContent, proxyURL) ==
    LET exportLine == "export GOPROXY=" \o proxyURL
    IN  IF Contains(existingContent, "export GOPROXY=")
        THEN Join(GoEnableLoop(Split(existingContent), exportLine))
        ELSE (IF HasSuffix(existingContent, "\n") THEN existingContent
              ELSE existingContent \o "\n")
             \o "\n# Added by crosh\n" \o exportLine \o "\n"

GoEnable(w, proxyURL) ==
    LET rd == ReadFile(w.file)
        existingContent == IF rd.err = "nil" THEN rd.data ELSE ""
        wr == WriteFile(w.file, GoEnableContent(existingContent, proxyURL))
    IN  IF wr.err # "nil" THEN Done(w, "write")
        ELSE Done([w EXCEPT !.file = wr.file,
                            !.goproxy = [set |-> TRUE, val |-> proxyURL]], "nil")

RECURSIVE GoDisableLoop(_, _)
GoDisableLoop(lines, skipNext) ==
    IF lines = <<>> THEN <<>>
    ELSE LET line == Head(lines)
         IN  IF TrimSpace(line) = "# Added by crosh"
             THEN GoDisableLoop(Tail(lines), TRUE)
             ELSE IF skipNext /\ Contains(line, "export GOPROXY=")
             THEN GoDisableLoop(Tail(lines), FALSE)
             ELSE (IF ~Contains(line, "export GOPROXY=") THEN <<line>> ELSE <<>>)
                  \o GoDisableLoop(Tail(lines), skipNext)

GoDisable(w) ==
    LET rd == ReadFile(w.file)
        content == Join(GoDisableLoop(Split(rd.data), FALSE))
        wr == WriteFile(w.file, content)
    IN  IF rd.err = "notexist" THEN Done(w, "nil")
        ELSE IF rd.err # "nil" THEN Done(w, "read")
        ELSE IF wr.err # "nil" THEN Done(w, "write")
        ELSE Done([w EXCEPT !.file = wr.file,
                            !.goproxy = [set |-> FALSE, val |-> ""]], "nil")

\* os.Getenv: the empty string for an unset variable.
Getenv(e) == IF e.set THEN e.val ELSE ""

\* GoStatus answering from the export line of the rc file.
GoStatusFromRc(w) ==
    LET rd == ReadFile(w.file)
        hit == SelectSeq(Split(rd.data), LAMBDA l : Contains(l, "export GOPROXY="))
    IN  IF rd.err = "nil" /\ hit # <<>>
        THEN Result(w, "nil", TRUE, TrimPrefix(TrimSpace(hit[1]), "export GOPROXY="))
        ELSE Result(w, "nil", FALSE, "default proxy")

GoStatus(w) ==
    LET value == Getenv(w.goproxy)
    IN  IF value # "" THEN Result(w, "nil", TRUE, value)
        ELSE Result(w, "nil", FALSE, "default proxy")

\* ------------------------------------------------------ pip (pip.conf)

\* getPipConfigPath: os.MkdirAll of ~/.config/pip, then the path.
getPipConfigPath(w) == [w EXCEPT !.dir = TRUE]

PipIndexLine(indexURL) == "index-url = " \o indexURL

\* PipEnableStep without the insertion of index-url on leaving [global].
PipEnableStepNoInsert(s, line, indexURL) ==
    LET trimmed == TrimSpace(line)
    IN  IF trimmed = "[global]"
        THEN [s EXCEPT !.hasGlobalSection = TRUE, !.inGlobalSection = TRUE,
                       !.newLines = Append(@, line)]
        ELSE IF HasPrefix(trimmed, "[") /\ trimmed # "[global]"
        THEN [s EXCEPT !.inGlobalSection = FALSE, !.newLines = Append(@, line)]
        ELSE IF s.inGlobalSection /\ HasPrefix(trimmed, "index-url")
        THEN [s EXCEPT !.hasIndexURL = TRUE,
                       !.newLines = Append(@, PipIndexLine(indexURL))]
        ELSE IF trimmed # "" THEN [s EXCEPT !.newLines = Append(@, line)]
        ELSE s

\* PipEnableStep copying blank lines too.
PipEnableStepKeepsBlank(s, line, indexURL) ==
    LET trimmed == TrimSpace(line)
    IN  IF trimmed = "[global]"
        THEN [s EXCEPT !.hasGlobalSection = TRUE, !.inGlobalSection = TRUE,
                       !.newLines = Append(@, line)]
        ELSE IF HasPrefix(trimmed, "[") /\ trimmed # "[global]"
        THEN IF s.inGlobalSection /\ ~s.hasIndexURL
             THEN [s EXCEPT !.hasIndexURL = TRUE, !.inGlobalSection = FALSE,
                            !.newLines = @ \o <<PipIndexLine(indexURL), line>>]
             ELSE [s EXCEPT !.inGlobalSection = FALSE,
                            !.newLines = Append(@, line)]
        ELSE IF s.inGlobalSection /\ HasPrefix(trimmed, "index-url")
        THEN [s EXCEPT !.hasIndexURL = TRUE,
                       !.newLines = Append(@, PipIndexLine(indexURL))]
        ELSE [s EXCEPT !.newLines = Append(@, line)]

\* One turn of the loop of PipMirror.Enable over line.
PipEnableStep(s, line, indexURL) ==
    LET trimmed == TrimSpace(line)
    IN  IF trimmed = "[global]"
        THEN [s EXCEPT !.hasGlobalSection = TRUE, !.inGlobalSection = TRUE,
                       !.newLines = Append(@, line)]
        ELSE IF HasPrefix(trimmed, "[") /\ trimmed # "[global]"
        THEN IF s.inGlobalSection /\ ~s.hasIndexURL
             THEN [s EXCEPT !.hasIndexURL = TRUE, !.inGlobalSection = FALSE,
                            !.newLines = @ \o <<PipIndexLine(indexURL), line>>]
             ELSE [s EXCEPT !.inGlobalSection = FALSE,
                            !.newLines = Append(@, line)]
        ELSE IF s.inGlobalSection /\ HasPrefix(trimmed, "index-url")
        THEN [s EXCEPT !.hasIndexURL = TRUE,
                       !.newLines = Append(@, PipIndexLine(indexURL))]
        ELSE IF trimmed # "" THEN [s EXCEPT !.newLines = Append(@, line)]
        ELSE s

RECURSIVE PipEnableLoop(_, _, _)
PipEnableLoop(lines, s, indexURL) ==
    IF lines = <<>> THEN s
    ELSE PipEnableLoop(Tail(lines), PipEnableStep(s, Head(lines), indexURL), indexURL)

\* The bytes PipMirror.Enable writes over existingContent.
PipEnableContent(existingContent, indexURL) ==
    LET s == PipEnableLoop(Split(existingContent),
                           [hasGlobalSection |-> FALSE, hasIndexURL |-> FALSE,
                            inGlobalSection |-> FALSE, newLines |-> <<>>],
                           indexURL)
        newLines ==
            IF ~s.hasGlobalSection
            THEN s.newLines \o <<"[global]", PipIndexLine(indexURL)>>
            ELSE IF ~s.hasIndexURL THEN Append(s.newLines, PipIndexLine(indexURL))
            ELSE s.newLines
    IN  Join(newLines) \o "\n"

PipEnable(w0, indexURL) ==
    LET w == getPipConfigPath(w0)
        rd == ReadFile(w.file)
        existingContent == IF rd.err = "nil" THEN rd.data ELSE ""
        wr == WriteFile(w.file, PipEnableContent(existingContent, indexURL))
    IN  IF wr.err # "nil" THEN Done(w, "write")
        ELSE Done([w EXCEPT !.file = wr.file], "nil")

RECURSIVE PipDisableLoop(_)
PipDisableLoop(lines) ==
    IF lines = <<>> THEN <<>>
    ELSE LET line == Head(lines)
             trimmed == TrimSpace(line)
         IN  (IF ~HasPrefix(trimmed, "index-url") /\ trimmed # "" THEN <<line>>
              ELSE <<>>)
             \o PipDisableLoop(Tail(lines))

PipDisable(w0) ==
    LET w == getPipConfigPath(w0)
        rd == ReadFile(w.file)
        newLines == PipDisableLoop(Split(rd.data))
        wr == WriteFile(w.file, Join(newLines) \o "\n")
    IN  IF rd.err = "notexist" THEN Done(w, "nil")
        ELSE IF rd.err # "nil" THEN Done(w, "read")
        ELSE IF Len(newLines) > 0
             THEN IF wr.err # "nil" THEN Done(w, "write")
                  ELSE Done([w EXCEPT !.file = wr.file], "nil")
             ELSE Done([w EXCEPT !.file = Remove(w.file, "")], "nil")

\* The first line, trimmed, that starts with prefix and holds an "=", or "".
FirstKeyLine(lines, prefix) ==
    LET hit == {i \in 1..Len(lines) :
                   /\ HasPrefix(TrimSpace(lines[i]), prefix)
                   /\ Len(SplitN2(TrimSpace(lines[i]))) = 2}
    IN  IF hit = {} THEN "" ELSE TrimSpace(lines[Min(hit)])

PipStatus(w0) ==
    LET w == getPipConfigPath(w0)
        rd == ReadFile(w.file)
        trimmed == FirstKeyLine(Split(rd.data), "index-url")
    IN  IF rd.err = "notexist" THEN Result(w, "nil", FALSE, "default index")
        ELSE IF rd.err # "nil" THEN Result(w, "read", FALSE, "")
        ELSE IF trimmed # ""
             THEN Result(w, "nil", TRUE, TrimSpace(SplitN2(trimmed)[2]))
             ELSE Result(w, "nil", FALSE, "default index")

\* ------------------------------------------------- cargo (config.toml)

\* getCargoConfigPath: os.MkdirAll of ~/.cargo, then the path.
getCargoConfigPath(w) == [w EXCEPT !.dir = TRUE]

CargoRegistryLine(registryURL) == "registry = \"" \o registryURL \o "\""

\* One turn of the loop of CargoMirror.Enable over line.
CargoEnableStep(s, line, existingContent) ==
    LET trimmed == TrimSpace(line)
    IN  IF trimmed = "[source.crates-io]"
        THEN [s EXCEPT !.hasSourceSection = TRUE, !.hasCratesIOSection = TRUE,
                       !.inCratesIOSection = TRUE, !.newLines = Append(@, line)]
        ELSE IF HasPrefix(trimmed, "[source.") /\ trimmed # "[source.crates-io]"
        THEN [s EXCEPT !.inCratesIOSection = FALSE, !.newLines = Append(@, line)]
        ELSE IF HasPrefix(trimmed, "[") /\ ~HasPrefix(trimmed, "[source.")
        THEN IF s.inCratesIOSection /\ ~Contains(existingContent, "replace-with")
             THEN [s EXCEPT !.inCratesIOSection = FALSE,
                            !.newLines = @ \o <<"replace-with = 'ustc'", line>>]
             ELSE [s EXCEPT !.inCratesIOSection = FALSE,
                            !.newLines = Append(@, line)]
        ELSE IF s.inCratesIOSection /\ HasPrefix(trimmed, "replace-with")
        THEN [s EXCEPT !.newLines = Append(@, "replace-with = 'ustc'")]
        ELSE IF trimmed # "" \/ Len(s.newLines) = 0
        THEN [s EXCEPT !.newLines = Append(@, line)]
        ELSE s

RECURSIVE CargoEnableLoop(_, _, _)
CargoEnableLoop(lines, s, existingContent) ==
    IF lines = <<>> THEN s
    ELSE CargoEnableLoop(Tail(lines),
                         CargoEnableStep(s, Head(lines), existingContent),
                         existingContent)

\* CargoEnableTail with the two appended sections in the other order.
CargoEnableTailUstcFirst(s, existingContent, registryURL) ==
    IF ~s.hasSourceSection \/ ~s.hasCratesIOSection
    THEN (IF Len(s.newLines) > 0 /\ s.newLines[Len(s.newLines)] # ""
          THEN <<"">> ELSE <<>>)
         \o <<"[source.ustc]", CargoRegistryLine(registryURL), "",
              "[source.crates-io]", "replace-with = 'ustc'">>
    ELSE IF ~Contains(existingContent, "[source.ustc]")
    THEN <<"", "[source.ustc]", CargoRegistryLine(registryURL)>>
    ELSE <<>>

\* CargoEnableTail appending [source.ustc] without looking for it in the file.
CargoEnableTailAlwaysUstc(s, existingContent, registryURL) ==
    IF ~s.hasSourceSection \/ ~s.hasCratesIOSection
    THEN (IF Len(s.newLines) > 0 /\ s.newLines[Len(s.newLines)] # ""
          THEN <<"">> ELSE <<>>)
         \o <<"[source.crates-io]", "replace-with = 'ustc'", "",
              "[source.ustc]", CargoRegistryLine(registryURL)>>
    ELSE <<"", "[source.ustc]", CargoRegistryLine(registryURL)>>

\* What CargoMirror.Enable appends after its loop.
CargoEnableTail(s, existingContent, registryURL) ==
    IF ~s.hasSourceSection \/ ~s.hasCratesIOSection
    THEN (IF Len(s.newLines) > 0 /\ s.newLines[Len(s.newLines)] # ""
          THEN <<"">> ELSE <<>>)
         \o <<"[source.crates-io]", "replace-with = 'ustc'", "",
              "[source.ustc]", CargoRegistryLine(registryURL)>>
    ELSE IF ~Contains(existingContent, "[source.ustc]")
    THEN <<"", "[source.ustc]", CargoRegistryLine(registryURL)>>
    ELSE <<>>

\* The bytes CargoMirror.Enable writes over existingContent.
CargoEnableContent(existingContent, registryURL) ==
    LET s == CargoEnableLoop(Split(existingContent),
                             [hasSourceSection |-> FALSE, hasCratesIOSection |-> FALSE,
                              inCratesIOSection |-> FALSE, newLines |-> <<>>],
                             existingContent)
    IN  Join(s.newLines \o CargoEnableTail(s, existingContent, registryURL)) \o "\n"

CargoEnable(w0, registryURL) ==
    LET w == getCargoConfigPath(w0)
        rd == ReadFile(w.file)
        existingContent == IF rd.err = "nil" THEN rd.data ELSE ""
        wr == WriteFile(w.file, CargoEnableContent(existingContent, registryURL))
    IN  IF wr.err # "nil" THEN Done(w, "write")
        ELSE Done([w EXCEPT !.file = wr.file], "nil")

\* CargoDisableLoop without the reset of skipSection at the next header.
RECURSIVE CargoDisableLoopNoReset(_, _)
CargoDisableLoopNoReset(lines, skipSection) ==
    IF lines = <<>> THEN <<>>
    ELSE LET line == Head(lines)
             trimmed == TrimSpace(line)
         IN  IF trimmed = "[source.crates-io]" \/ trimmed = "[source.ustc]"
             THEN CargoDisableLoopNoReset(Tail(lines), TRUE)
             ELSE (IF ~skipSection /\ trimmed # "" THEN <<line>> ELSE <<>>)
                  \o CargoDisableLoopNoReset(Tail(lines), skipSection)

RECURSIVE CargoDisableLoop(_, _)
CargoDisableLoop(lines, skipSection) ==
    IF lines = <<>> THEN <<>>
    ELSE LET line == Head(lines)
             trimmed == TrimSpace(line)
             skip == IF HasPrefix(trimmed, "[") THEN FALSE ELSE skipSection
         IN  IF trimmed = "[source.crates-io]" \/ trimmed = "[source.ustc]"
             THEN CargoDisableLoop(Tail(lines), TRUE)
             ELSE (IF ~skip /\ trimmed # "" THEN <<line>> ELSE <<>>)
                  \o CargoDisableLoop(Tail(lines), skip)

CargoDisable(w0) ==
    LET w == getCargoConfigPath(w0)
        rd == ReadFile(w.file)
        newLines == CargoDisableLoop(Split(rd.data), FALSE)
        wr == WriteFile(w.file, Join(newLines) \o "\n")
    IN  IF rd.err = "notexist" THEN Done(w, "nil")
        ELSE IF rd.err # "nil" THEN Done(w, "read")
        ELSE IF Len(newLines) > 0
             THEN IF wr.err # "nil" THEN Done(w, "write")
                  ELSE Done([w EXCEPT !.file = wr.file], "nil")
             ELSE Done([w EXCEPT !.file = Remove(w.file, "")], "nil")

CargoStatus(w0) ==
    LET w == getCargoConfigPath(w0)
        rd == ReadFile(w.file)
        content == rd.data
        trimmed == FirstKeyLine(Split(content), "registry")
    IN  IF rd.err = "notexist" THEN Result(w, "nil", FALSE, "default registry")
        ELSE IF rd.err # "nil" THEN Result(w, "read", FALSE, "")
        ELSE IF Contains(content, "[source.ustc]") /\ trimmed # ""
             THEN Result(w, "nil", TRUE, Trim(TrimSpace(SplitN2(trimmed)[2]), "\""))
             ELSE Result(w, "nil", FALSE, "default registry")

\* -------------------------------------------------- Docker (daemon.json)

\* A JSON value: an array of items, or a scalar held as its one item; an
\* item is a string or some other scalar (true, 1), text being its content.
JStr(text) == [str |-> TRUE, text |-> text]
JScalar(item) == [arr |-> FALSE, items |-> <<item>>]
JArray(items) == [arr |-> TRUE, items |-> items]

\* The bytes of daemon.json: an object (its members in file order; canon
\* says its bytes are MarshalIndent's), the literal null, another JSON value
\* ("other") or bytes that are no JSON ("invalid", the empty file included);
\* raw holds the bytes of a document that is no object.
ObjectDoc(members, canon) ==
    [kind |-> "object", canon |-> canon, members |-> members, raw |-> ""]
RawDoc(kind, raw) ==
    [kind |-> kind, canon |-> FALSE, members |-> <<>>, raw |-> raw]
EmptyDoc == RawDoc("invalid", "")
NullDoc == RawDoc("null", "null")

\* A Go map[string]interface{}: nil, or a function on its keys.
NilMap == [nil |-> TRUE, m |-> [k \in {} |-> JScalar(JStr(""))]]
make == [NilMap EXCEPT !.nil = FALSE]

\* json.Unmarshal(data, &config) into a nil map: a later member of the same
\* key wins, null leaves the map nil, anything else is an error.
Unmarshal(doc) ==
    IF doc.kind = "object"
    THEN LET keys == {doc.members[i].k : i \in 1..Len(doc.members)}
             last(k) == CHOOSE i \in 1..Len(doc.members) :
                           /\ doc.members[i].k = k
                           /\ \A j \in (i + 1)..Len(doc.members) : doc.members[j].k # k
         IN  [err |-> FALSE,
              config |-> [nil |-> FALSE, m |-> [k \in keys |-> doc.members[last(k)].v]]]
    ELSE IF doc.kind = "null" THEN [err |-> FALSE, config |-> NilMap]
    ELSE [err |-> TRUE, config |-> NilMap]

\* The keys the model uses, in the byte order encoding/json sorts map keys in.
KeyOrder == <<"debug", "dns", "registry-mirrors", "storage-driver">>

\* json.MarshalIndent(config, "", "  "): keys sorted; a nil map is null.
MarshalIndent(config) ==
    IF config.nil THEN NullDoc
    ELSE LET keys == SelectSeq(KeyOrder, LAMBDA k : k \in DOMAIN config.m)
         IN  ObjectDoc([i \in 1..Len(keys) |-> [k |-> keys[i], v |-> config.m[keys[i]]]],
                       TRUE)

\* delete(config, key): no-op on a nil map.
MapDelete(config, key) ==
    [config EXCEPT !.m = [k \in (DOMAIN config.m) \ {key} |-> config.m[k]]]

\* config[key] = v on a map that is not nil.
MapSet(config, key, v) ==
    [config EXCEPT !.m = [k \in (DOMAIN config.m) \cup {key} |->
                              IF k = key THEN v ELSE config.m[k]]]

\* formattedRegistries looking for the "https://" scheme only.
formattedRegistriesHttpsOnly(registries) ==
    [i \in 1..Len(registries) |->
        IF ~HasPrefix(registries[i], "https://")
        THEN "https://" \o registries[i]
        ELSE registries[i]]

\* The loop of DockerMirror.Enable that gives every registry a scheme.
formattedRegistries(registries) ==
    [i \in 1..Len(registries) |->
        IF ~HasPrefix(registries[i], "http://") /\ ~HasPrefix(registries[i], "https://")
        THEN "https://" \o registries[i]
        ELSE registries[i]]

DockerEnable(w0, isDockerDesktop, registries) ==
    LET w == [w0 EXCEPT !.dir = TRUE]
        rd == ReadFile(w.file)
        um == Unmarshal(rd.data)
        corrupted == rd.err = "nil" /\ um.err
        \* the result of writing the backup is not looked at
        w1 == IF corrupted
              THEN [w EXCEPT !.backup = WriteFile(w.backup, rd.data).file]
              ELSE w
        config == IF rd.err = "notexist" \/ corrupted THEN make ELSE um.config
        formatted == formattedRegistries(registries)
        config1 == IF Len(registries) > 0
                   THEN MapSet(config, "registry-mirrors",
                               JArray([i \in 1..Len(formatted) |-> JStr(formatted[i])]))
                   ELSE config
        wr == WriteFile(w1.file, MarshalIndent(config1))
    IN  IF isDockerDesktop THEN Done(w0, "nil")
        ELSE IF rd.err = "other" THEN Done(w, "read")
        ELSE IF Len(registries) > 0 /\ config.nil THEN Done(w1, "panic")
        ELSE IF wr.err # "nil" THEN Done(w1, "write")
        ELSE Done([w1 EXCEPT !.file = wr.file], "nil")

DockerDisable(w, isDockerDesktop) ==
    LET rd == ReadFile(w.file)
        um == Unmarshal(rd.data)
        config == MapDelete(um.config, "registry-mirrors")
        wr == WriteFile(w.file, MarshalIndent(config))
    IN  IF isDockerDesktop THEN Done(w, "nil")
        ELSE IF rd.err = "notexist" THEN Done(w, "nil")
        ELSE IF rd.err # "nil" THEN Done(w, "read")
        ELSE IF um.err THEN Done(w, "parse")
        ELSE IF Cardinality(DOMAIN config.m) = 0
             THEN Done([w EXCEPT !.file = Remove(w.file, EmptyDoc)], "nil")
        ELSE IF wr.err # "nil" THEN Done(w, "write")
        ELSE Done([w EXCEPT !.file = wr.file], "nil")

\* strings.Join(elems, ", ").
RECURSIVE JoinComma(_)
JoinComma(elems) ==
    IF elems = <<>> THEN ""
    ELSE IF Len(elems) = 1 THEN elems[1]
    ELSE elems[1] \o ", " \o JoinComma(Tail(elems))

\* The loop of DockerMirror.Status: the string items, their scheme removed.
RECURSIVE mirrorStrings(_)
mirrorStrings(mirrorsSlice) ==
    IF mirrorsSlice = <<>> THEN <<>>
    ELSE (IF Head(mirrorsSlice).str
          THEN <<TrimPrefix(TrimPrefix(Head(mirrorsSlice).text, "https://"), "http://")>>
          ELSE <<>>)
         \o mirrorStrings(Tail(mirrorsSlice))

DockerStatus(w, isDockerDesktop) ==
    LET rd == ReadFile(w.file)
        um == Unmarshal(rd.data)
        ok == "registry-mirrors" \in DOMAIN um.config.m
        mirrors == um.config.m["registry-mirrors"]
    IN  IF isDockerDesktop
        THEN Result(w, "nil", FALSE, "check Docker Desktop settings")
        ELSE IF rd.err = "notexist" THEN Result(w, "nil", FALSE, "default registry")
        ELSE IF rd.err # "nil" THEN Result(w, "read", FALSE, "")
        ELSE IF um.err THEN Result(w, "parse", FALSE, "")
        ELSE IF ~ok THEN Result(w, "nil", FALSE, "default registry")
        ELSE IF ~mirrors.arr \/ Len(mirrors.items) = 0
             THEN Result(w, "nil", FALSE, "default registry")
        ELSE IF Len(mirrorStrings(mirrors.items)) = 0
             THEN Result(w, "nil", FALSE, "default registry")
        ELSE Result(w, "nil", TRUE, JoinComma(mirrorStrings(mirrors.items)))

\* ------------------------------------------------------- starting states

Tools == {"npm", "pip", "cargo", "docker", "go"}

\* The mirror URLs the mutators are constructed with.
URLs == {"https://m1", "https://m2"}
\* The registry lists DockerMirror is constructed with.
RegistryLists == {<<>>, <<"h1", "http://h2", "https://h3">>}

\* The lines starting files are made of: a blank line, foreign lines, and
\* the lines and headers the mutator looks for.
LinesOf(t) ==
    CASE t = "npm" ->
           {"", "color=true", "registry=https://old", "  registry=https://older"}
      [] t = "pip" ->
           {"", "[global]", "index-url = https://old", "timeout = 60", "[install]"}
      [] t = "cargo" ->
           {"", "[build]", "jobs = 4", "[source.crates-io]", "replace-with = 'x'",
            "[source.ustc]", "registry = \"https://old\""}
      [] t = "go" ->
           {"", "alias ll=ls", "export GOPROXY=https://old", "# Added by crosh"}

SeqsUpTo(S, n) == UNION {[1..k -> S] : k \in 0..n}

\* Every text of at most MaxLines lines, with and without a final newline.
Texts(t) == {Join(ls) \o end : ls \in SeqsUpTo(LinesOf(t), MaxLines), end \in {"", "\n"}}

\* The members daemon.json documents are made of.
Members ==
    {[k |-> "debug", v |-> JScalar([str |-> FALSE, text |-> "true"])],
     [k |-> "storage-driver", v |-> JScalar(JStr("overlay2"))],
     [k |-> "registry-mirrors", v |-> JArray(<<JStr("https://old")>>)],
     [k |-> "registry-mirrors", v |-> JArray(<<>>)]}

KeyIndex(k) == CHOOSE i \in 1..Len(KeyOrder) : KeyOrder[i] = k

\* Whether members are what MarshalIndent can have written: keys ascending.
Sorted(ms) ==
    \A i \in 1..(Len(ms) - 1) : KeyIndex(ms[i].k) < KeyIndex(ms[i + 1].k)

Docs ==
    {ObjectDoc(ms, c) : ms \in SeqsUpTo(Members, MaxLines), c \in BOOLEAN}
    \cup {NullDoc, RawDoc("other", "[]"), RawDoc("invalid", "{oops"), EmptyDoc}

\* What ReadFile yields for a file that holds nothing.
Empty(t) == IF t = "docker" THEN EmptyDoc ELSE ""

\* Larger starting files: two foreign items around the managed content, or
\* around a blank line.
Examples(t) ==
    CASE t = "npm" -> {"color=true\nregistry=https://old\nsave-exact=true\n",
                       "color=true\n\nsave-exact=true\n"}
      [] t = "pip" ->
           {"[global]\ntimeout = 60\nindex-url = https://old\n\n[install]\nno-deps = yes\n",
            "[global]\ntimeout = 60\n[install]\nno-deps = yes\n",
            "timeout = 60\n\n[install]\nno-deps = yes\n"}
      [] t = "cargo" ->
           {"[build]\njobs = 4\n\n[source.crates-io]\nreplace-with = 'x'\n\n"
            \o "[source.ustc]\nregistry = \"https://old\"\n\n[net]\nretry = 2\n",
            "[source.crates-io]\n[net]\nretry = 2\n"}
      [] t = "go" ->
           {"alias ll=ls\n\n# Added by crosh\nexport GOPROXY=https://old\nexport GOPATH=/go\n"}
      [] t = "docker" ->
           {ObjectDoc(<<[k |-> "storage-driver", v |-> JScalar(JStr("overlay2"))],
                        [k |-> "registry-mirrors", v |-> JArray(<<JStr("https://old")>>)],
                        [k |-> "debug", v |-> JScalar([str |-> FALSE, text |-> "true"])]>>,
                      FALSE)}

StartFiles(t) ==
    {NoFile(Empty(t))}
    \cup {[exists |-> TRUE, data |-> d, mode |-> "rw"] :
            d \in Examples(t)
                  \cup IF t = "docker" THEN {x \in Docs : x.canon => Sorted(x.members)}
                       ELSE Texts(t)}

\* The example files of the documented scenarios.
ScenarioFile(t, f) ==
    \/ ~f.exists
    \/ f.data = Empty(t)
    \/ t = "cargo" /\ f.data = "[build]\njobs = 4"

Init ==
    /\ selected \in Tools
    /\ file \in StartFiles(selected)
    /\ backup = NoFile(Empty(selected))
    /\ dir \in IF file.exists \/ selected \in {"npm", "go"} THEN {TRUE} ELSE BOOLEAN
    /\ goproxy \in IF selected = "go"
                   THEN {[set |-> FALSE, val |-> ""], [set |-> TRUE, val |-> "https://env"]}
                   ELSE {[set |-> FALSE, val |-> ""]}
    /\ desktop \in IF selected = "docker" /\ ScenarioFile(selected, file)
                   THEN BOOLEAN ELSE {FALSE}
    /\ hist = <<>>

\* ----------------------------------------------------------------- calls

\* The file the session started from.
StartFile == IF hist = <<>> THEN file ELSE hist[1].pre.file

CanCall ==
    Len(hist) < (IF ScenarioFile(selected, StartFile) THEN MaxScenarioCalls
                 ELSE MaxCalls)

\* The call op(arg) ends with result r.
Call(op, arg, r) ==
    /\ file' = r.world.file
    /\ backup' = r.world.backup
    /\ dir' = r.world.dir
    /\ goproxy' = r.world.goproxy
    /\ hist' = Append(hist, [op |-> op, arg |-> arg, err |-> r.err,
                             enabled |-> r.enabled, desc |-> r.desc, pre |-> World])
    /\ UNCHANGED <<selected, desktop>>

NPMMirrorEnable ==
    /\ selected = "npm" /\ CanCall
    /\ \E u \in URLs : Call("Enable", <<u>>, NPMEnable(World, u))

NPMMirrorDisable ==
    /\ selected = "npm" /\ CanCall
    /\ Call("Disable", NoArg, NPMDisable(World))

NPMMirrorStatus ==
    /\ selected = "npm" /\ CanCall
    /\ Call("Status", NoArg, NPMStatus(World))

PipMirrorEnable ==
    /\ selected = "pip" /\ CanCall
    /\ \E u \in URLs : Call("Enable", <<u>>, PipEnable(World, u))

PipMirrorDisable ==
    /\ selected = "pip" /\ CanCall
    /\ Call("Disable", NoArg, PipDisable(World))

PipMirrorStatus ==
    /\ selected = "pip" /\ CanCall
    /\ Call("Status", NoArg, PipStatus(World))

CargoMirrorEnable ==
    /\ selected = "cargo" /\ CanCall
    /\ \E u \in URLs : Call("Enable", <<u>>, CargoEnable(World, u))

CargoMirrorDisable ==
    /\ selected = "cargo" /\ CanCall
    /\ Call("Disable", NoArg, CargoDisable(World))

CargoMirrorStatus ==
    /\ selected = "cargo" /\ CanCall
    /\ Call("Status", NoArg, CargoStatus(World))

DockerMirrorEnable ==
    /\ selected = "docker" /\ CanCall
    /\ \E rs \in RegistryLists : Call("Enable", rs, DockerEnable(World, desktop, rs))

DockerMirrorDisable ==
    /\ selected = "docker" /\ CanCall
    /\ Call("Disable", NoArg, DockerDisable(World, desktop))

DockerMirrorStatus ==
    /\ selected = "docker" /\ CanCall
    /\ Call("Status", NoArg, DockerStatus(World, desktop))

GoMirrorEnable ==
    /\ selected = "go" /\ CanCall
    /\ \E u \in URLs : Call("Enable", <<u>>, GoEnable(World, u))

GoMirrorDisable ==
    /\ selected = "go" /\ CanCall
    /\ Call("Disable", NoArg, GoDisable(World))

GoMirrorStatus ==
    /\ selected = "go" /\ CanCall
    /\ Call("Status", NoArg, GoStatus(World))

Next ==
    \/ NPMMirrorEnable \/ NPMMirrorDisable \/ NPMMirrorStatus
    \/ PipMirrorEnable \/ PipMirrorDisable \/ PipMirrorStatus
    \/ CargoMirrorEnable \/ CargoMirrorDisable \/ CargoMirrorStatus
    \/ DockerMirrorEnable \/ DockerMirrorDisable \/ DockerMirrorStatus
    \/ GoMirrorEnable \/ GoMirrorDisable \/ GoMirrorStatus

Spec == Init /\ [][Next]_vars

\* ----------------------------------------- sessions that meet refused I/O

\* The permissions a starting file can have: read and write, read only,
\* write only.
Modes == {"rw", "ro", "wo"}

\* Starting files for the sessions that meet refused reads and writes: no
\* file, or an empty file, an example file or (daemon.json) bytes that are no
\* JSON, under each of the permissions.
IOFiles(t) ==
    {NoFile(Empty(t))}
    \cup {[exists |-> TRUE, data |-> d, mode |-> m] :
            d \in Examples(t) \cup {Empty(t)}
                  \cup (IF t = "docker" THEN {RawDoc("invalid", "{oops")} ELSE {}),
            m \in Modes}

\* The ".backup" sibling at the start: none, or one an earlier run left and
\* that cannot be written now.
IOBackups(t) ==
    {NoFile(Empty(t))}
    \cup (IF t = "docker"
          THEN {[exists |-> TRUE, data |-> RawDoc("invalid", "{older"), mode |-> "ro"]}
          ELSE {})

InitIO ==
    /\ selected \in Tools
    /\ file \in IOFiles(selected)
    /\ backup \in IOBackups(selected)
    /\ dir = TRUE
    /\ goproxy \in IF selected = "go"
                   THEN {[set |-> FALSE, val |-> ""], [set |-> TRUE, val |-> "https://env"]}
                   ELSE {[set |-> FALSE, val |-> ""]}
    /\ desktop = FALSE
    /\ hist = <<>>

SpecIO == InitIO /\ [][Next]_vars

\* ------------------------------------------------ vocabulary of the claims

N == Len(hist)

\* The world call i left.
After(i) == IF i = N THEN World ELSE hist[i + 1].pre

\* The last two calls were first and then second.
LastTwo(first, second) ==
    N >= 2 /\ hist[N - 1].op = first /\ hist[N].op = second

\* The bytes of a file, an absent file holding none.
Bytes(f) == IF f.exists THEN f.data ELSE Empty(selected)

\* Whether a is b with some elements left out (order kept).
RECURSIVE IsSubseq(_, _)
IsSubseq(a, b) ==
    IF a = <<>> THEN TRUE
    ELSE IF b = <<>> THEN FALSE
    ELSE IF Head(a) = Head(b) THEN IsSubseq(Tail(a), Tail(b))
    ELSE IsSubseq(a, Tail(b))

\* The lines of a cargo config outside the [source.crates-io] and
\* [source.ustc] sections, a section running to the next header.
RECURSIVE CargoOutside(_, _)
CargoOutside(lines, inManaged) ==
    IF lines = <<>> THEN <<>>
    ELSE LET trimmed == TrimSpace(Head(lines))
             managed == IF trimmed \in {"[source.crates-io]", "[source.ustc]"} THEN TRUE
                        ELSE IF HasPrefix(trimmed, "[") THEN FALSE
                        ELSE inManaged
         IN  (IF managed THEN <<>> ELSE <<Head(lines)>>)
             \o CargoOutside(Tail(lines), managed)

\* Whether a line is managed content of text mutator t, by the line alone.
ManagedLine(t, line) ==
    CASE t = "npm" -> HasPrefix(TrimSpace(line), "registry=")
      [] t = "pip" -> HasPrefix(TrimSpace(line), "index-url")
      [] t = "cargo" -> FALSE
      [] t = "go" -> \/ Contains(line, "export GOPROXY=")
                     \/ TrimSpace(line) = "# Added by crosh"

\* The unrelated items of a file: its non-blank lines that are no managed
\* content, in file order; for daemon.json its members other than
\* registry-mirrors.
Unrelated(t, f) ==
    IF ~f.exists THEN <<>>
    ELSE IF t = "docker"
    THEN SelectSeq(f.data.members, LAMBDA mb : mb.k # "registry-mirrors")
    ELSE SelectSeq(IF t = "cargo" THEN CargoOutside(Split(f.data), FALSE)
                   ELSE Split(f.data),
                   LAMBDA line : TrimSpace(line) # "" /\ ~ManagedLine(t, line))

\* The items of a file, to look the unrelated ones up in.
Items(t, f) ==
    IF ~f.exists THEN <<>>
    ELSE IF t = "docker" THEN f.data.members
    ELSE Split(f.data)

\* Whether a file holds managed content, as the mutators' documentation names
\* it: a registry= line, an index-url line, a [source.crates-io] or
\* [source.ustc] section, a registry-mirrors key, an export GOPROXY= line.
HasManaged(t, f) ==
    /\ f.exists
    /\ IF t = "docker"
       THEN \E i \in 1..Len(f.data.members) : f.data.members[i].k = "registry-mirrors"
       ELSE LET lines == Split(f.data)
            IN  \E i \in 1..Len(lines) :
                   CASE t = "npm" -> HasPrefix(TrimSpace(lines[i]), "registry=")
                     [] t = "pip" -> HasPrefix(TrimSpace(lines[i]), "index-url")
                     [] t = "cargo" ->
                          TrimSpace(lines[i]) \in {"[source.crates-io]", "[source.ustc]"}
                     [] t = "go" -> Contains(lines[i], "export GOPROXY=")

\* The description Status is to give after Enable(arg).
Description(t, arg) ==
    IF t = "docker"
    THEN JoinComma([i \in 1..Len(arg) |->
                       TrimPrefix(TrimPrefix(arg[i], "https://"), "http://")])
    ELSE arg[1]

\* ----------------------------------------------------------------- claims

\* C1 (as claimed): for each mutator and every starting file, Enable(v) called
\* twice in a row leaves the target file byte-identical to the file the
\* first Enable(v) left.
C1_EnableTwiceSameFile ==
    (LastTwo("Enable", "Enable") /\ hist[N].arg = hist[N - 1].arg)
        => file = hist[N].pre.file

\* C2 (as claimed): for each mutator, from a target file that is absent or
\* empty, Enable(v) followed by Disable() leaves the target file with the
\* bytes it had before Enable.  An absent file counts as holding no bytes
\* here, so less is asked than the claim asks.
C2_EnableDisableRoundTrip ==
    (LastTwo("Enable", "Disable") /\ Bytes(hist[N - 1].pre.file) = Empty(selected))
        => Bytes(file) = Bytes(hist[N - 1].pre.file)

\* C3 (as claimed): for each mutator, Disable() on a target file with no
\* managed content returns no error and leaves the file's bytes as they
\* were.  An absent file counts as holding no bytes here, so less is asked
\* than the claim asks.
C3_DisableWithoutManagedIsNoOp ==
    (N >= 1 /\ hist[N].op = "Disable" /\ ~HasManaged(selected, hist[N].pre.file))
        => (hist[N].err = "nil" /\ Bytes(file) = Bytes(hist[N].pre.file))

C5_StatusReflectsEnable ==
    (LastTwo("Enable", "Status") /\ hist[N - 1].err = "nil" /\ ~desktop
                                 /\ hist[N - 1].arg # <<>>)
        => /\ hist[N].enabled
           /\ hist[N].err = "nil"
           /\ hist[N].desc = Description(selected, hist[N - 1].arg)

\* C6 (as claimed): Status() of every mutator changes nothing: the target
\* file, its parent directory, the .backup sibling and GOPROXY are after the
\* call what they were before it.
C6_StatusChangesNothing ==
    (N >= 1 /\ hist[N].op = "Status") => World = hist[N].pre

\* Whether what is left of a file is logically empty: for pip no key in any
\* section, for cargo no non-blank line, for Docker the empty object.
LogicallyEmpty(t, data) ==
    CASE t = "docker" -> data.kind = "object" /\ data.members = <<>>
      [] t = "cargo" ->
           \A i \in 1..Len(Split(data)) : TrimSpace(Split(data)[i]) = ""
      [] t = "pip" ->
           \A i \in 1..Len(Split(data)) :
               \/ TrimSpace(Split(data)[i]) = ""
               \/ HasPrefix(TrimSpace(Split(data)[i]), "[")
      [] OTHER -> FALSE

\* C7 (as claimed): when Disable() removes the managed content and what is
\* left is logically empty, the target file is deleted, not written back;
\* the Go mutator never deletes the rc file.
C7_EmptyRemainderDeleted ==
    (N >= 1 /\ hist[N].op = "Disable" /\ hist[N].err = "nil")
        => /\ (/\ HasManaged(selected, hist[N].pre.file)
               /\ ~HasManaged(selected, file)
               /\ file.exists)
              => ~LogicallyEmpty(selected, file.data)
           /\ (selected = "go" /\ hist[N].pre.file.exists) => file.exists

\* C8: for each mutator and every starting state, a second Disable() right
\* after a successful first one returns no error and leaves the target file,
\* its content or its absence, as the first one left it.
C8_DisableIdempotent ==
    (LastTwo("Disable", "Disable") /\ hist[N - 1].err = "nil")
        => (hist[N].err = "nil" /\ file = hist[N].pre.file)

\* Two Disable() calls of which the first removed managed content.
C8_Witness ==
    /\ LastTwo("Disable", "Disable") /\ hist[N - 1].err = "nil"
    /\ HasManaged(selected, hist[N - 1].pre.file)
    /\ hist[N - 1].pre.file # hist[N].pre.file

\* C9: the npm scenario, in order: from an empty .npmrc, Enable(u) leaves
\* exactly "registry=u\n"; Status() then returns (true, u, nil); Disable()
\* then removes the file; Status() then returns (false, "default registry",
\* nil).
C9_NpmScenario ==
    (/\ selected = "npm" /\ StartFile.exists /\ StartFile.data = ""
     /\ N >= 1 /\ hist[1].op = "Enable" /\ hist[1].arg \in {<<u>> : u \in URLs})
        => /\ hist[1].err = "nil"
           /\ After(1).file.exists
           /\ After(1).file.data = "registry=" \o hist[1].arg[1] \o "\n"
           /\ (N >= 2 /\ hist[2].op = "Status")
                 => /\ hist[2].enabled /\ hist[2].desc = hist[1].arg[1]
                    /\ hist[2].err = "nil"
                    /\ (N >= 3 /\ hist[3].op = "Disable")
                          => /\ hist[3].err = "nil" /\ ~After(3).file.exists
                             /\ (N >= 4 /\ hist[4].op = "Status")
                                   => /\ ~hist[4].enabled
                                      /\ hist[4].desc = "default registry"
                                      /\ hist[4].err = "nil"

\* The whole npm scenario has run.
C9_Witness ==
    /\ selected = "npm" /\ StartFile.exists /\ StartFile.data = ""
    /\ N = 4
    /\ hist[1].op = "Enable" /\ hist[2].op = "Status"
    /\ hist[3].op = "Disable" /\ hist[4].op = "Status"

\* C10: the cargo scenario: from a config holding only "[build]" and
\* "jobs = 4", Enable(u) leaves a file with, in this order, the [build] block,
\* then [source.crates-io] followed by replace-with = 'ustc', then
\* [source.ustc] followed by registry = "u".
C10_CargoScenario ==
    (/\ selected = "cargo" /\ StartFile.exists
     /\ StartFile.data \in {"[build]\njobs = 4", "[build]\njobs = 4\n"}
     /\ N >= 1 /\ hist[1].op = "Enable")
        => LET lines == Split(After(1).file.data)
               at(i, first, second) == lines[i] = first /\ lines[i + 1] = second
           IN  /\ hist[1].err = "nil"
               /\ \E i, j, k \in 1..(Len(lines) - 1) :
                     /\ i + 1 < j /\ j + 1 < k
                     /\ at(i, "[build]", "jobs = 4")
                     /\ at(j, "[source.crates-io]", "replace-with = 'ustc'")
                     /\ at(k, "[source.ustc]",
                           "registry = \"" \o hist[1].arg[1] \o "\"")

\* Enable(u) has run on the config of the cargo scenario.
C10_Witness ==
    /\ selected = "cargo" /\ N = 1 /\ hist[1].op = "Enable"
    /\ hist[1].pre.file.exists /\ hist[1].pre.file.data = "[build]\njobs = 4"
    /\ file.exists

\* The keys of the JSON object a daemon.json holds.
DocKeys(doc) == {doc.members[i].k : i \in 1..Len(doc.members)}

\* Whether the last call was a successful DockerMirror.Enable (not the Docker
\* Desktop variant) with a non-empty list on an existing daemon.json that is
\* no parsable JSON.
EnabledOverCorrupted ==
    /\ N >= 1 /\ selected = "docker" /\ ~desktop /\ hist[N].op = "Enable"
    /\ hist[N].err = "nil" /\ hist[N].arg # <<>>
    /\ hist[N].pre.file.exists /\ hist[N].pre.file.data.kind = "invalid"

\* C11 (as claimed): when daemon.json exists and is not parsable JSON, a
\* successful Enable() with a non-empty mirror list leaves a .backup sibling
\* holding the original bytes and a daemon.json that is a JSON object whose
\* only key is registry-mirrors.
C11_CorruptionBackedUp ==
    EnabledOverCorrupted =>
        /\ backup.exists /\ backup.data = hist[N].pre.file.data
        /\ file.exists /\ file.data.kind = "object"
        /\ DocKeys(file.data) = {"registry-mirrors"}

\* The "export GOPROXY=" lines of an rc file that the user wrote: those not
\* directly under the sentinel comment.
UserExports(f) ==
    IF ~f.exists THEN {}
    ELSE LET lines == Split(f.data)
         IN  {lines[i] : i \in {j \in 1..Len(lines) :
                  /\ Contains(lines[j], "export GOPROXY=")
                  /\ ~(j > 1 /\ TrimSpace(lines[j - 1]) = "# Added by crosh")}}

\* The lines of a file.
LineSet(f) ==
    IF ~f.exists THEN {} ELSE {Split(f.data)[i] : i \in 1..Len(Split(f.data))}

\* C12 (as claimed): over any rc file, an "export GOPROXY=" line the user
\* wrote (not preceded by the sentinel) is still in the rc file, with its
\* value, after a successful Disable(), and also after Enable(v);Disable().
C12_UserExportKept ==
    /\ (N >= 1 /\ selected = "go" /\ hist[N].op = "Disable" /\ hist[N].err = "nil")
          => UserExports(hist[N].pre.file) \subseteq LineSet(file)
    /\ (selected = "go" /\ LastTwo("Enable", "Disable")
        /\ hist[N - 1].err = "nil" /\ hist[N].err = "nil")
          => UserExports(hist[N - 1].pre.file) \subseteq LineSet(file)

\* C13 (as claimed): for the Go mutator and every rc-file state, present or
\* not, once Disable() has returned without error GOPROXY is unset, and a
\* Status() called right after returns (false, "default proxy", nil).
C13_DisableUnsetsGoproxy ==
    /\ (N >= 1 /\ selected = "go" /\ hist[N].op = "Disable" /\ hist[N].err = "nil")
          => ~goproxy.set
    /\ (selected = "go" /\ LastTwo("Disable", "Status") /\ hist[N - 1].err = "nil")
          => (~hist[N].enabled /\ hist[N].desc = "default proxy"
              /\ hist[N].err = "nil")

\* C14 (as claimed): for every mutator, when reading the existing target
\* file fails for a reason other than the file being absent, Enable() returns
\* an error and leaves the file exactly as it was found; so does Disable().
C14_ReadFailureLeavesFile ==
    (/\ N >= 1 /\ ~desktop /\ hist[N].op \in {"Enable", "Disable"}
     /\ ReadFile(hist[N].pre.file).err = "other")
        => (hist[N].err # "nil" /\ file = hist[N].pre.file)

\* Whether line i of lines is a section header.
IsHeader(lines, i) == HasPrefix(TrimSpace(lines[i]), "[")

\* Whether line i of lines lies in the scope of a [global] header: after
\* one, with no other header in between.
InGlobalScope(lines, i) ==
    \E j \in 1..(i - 1) :
        /\ TrimSpace(lines[j]) = "[global]"
        /\ \A k \in (j + 1)..(i - 1) : ~IsHeader(lines, k)

\* The first [global] header of lines, or 0.
FirstGlobal(lines) ==
    LET hit == {j \in 1..Len(lines) : TrimSpace(lines[j]) = "[global]"}
    IN  IF hit = {} THEN 0 ELSE Min(hit)

\* The first header of another section after line j of lines, or 0.
NextHeader(lines, j) ==
    LET hit == {h \in (j + 1)..Len(lines) :
                   IsHeader(lines, h) /\ TrimSpace(lines[h]) # "[global]"}
    IN  IF hit = {} THEN 0 ELSE Min(hit)

\* Whether lines has a [global] section with no index-url line that another
\* section follows.
GlobalWithoutIndexURL(lines) ==
    LET j == FirstGlobal(lines)
        h == NextHeader(lines, j)
    IN  /\ j # 0 /\ h # 0
        /\ \A k \in (j + 1)..(h - 1) : ~HasPrefix(TrimSpace(lines[k]), "index-url")

\* C15: for pip, after a successful Enable(v) on any input file, a line
\* "index-url = v" lies in the scope of a [global] section (after a [global]
\* header and before the next header); when the input has a [global] section
\* without index-url that another section follows, the line stands directly
\* before that following header, in the scope of [global].
C15_IndexURLInGlobal ==
    (N >= 1 /\ selected = "pip" /\ hist[N].op = "Enable" /\ hist[N].err = "nil")
        => LET v == hist[N].arg[1]
               pre == Split(Bytes(hist[N].pre.file))
               post == Split(file.data)
           IN  /\ file.exists
               /\ \E i \in 1..Len(post) :
                     post[i] = "index-url = " \o v /\ InGlobalScope(post, i)
               /\ GlobalWithoutIndexURL(pre)
                     => \E i \in 1..(Len(post) - 1) :
                           /\ post[i] = "index-url = " \o v
                           /\ InGlobalScope(post, i)
                           /\ post[i + 1] = pre[NextHeader(pre, FirstGlobal(pre))]

\* Enable(v) has run on a pip.conf whose [global] section has a key, no
\* index-url, and is followed by another section.
C15_Witness ==
    /\ N >= 1 /\ selected = "pip" /\ hist[N].op = "Enable" /\ hist[N].err = "nil"
    /\ hist[N].pre.file.exists
    /\ GlobalWithoutIndexURL(Split(hist[N].pre.file.data))
    /\ NextHeader(Split(hist[N].pre.file.data),
                  FirstGlobal(Split(hist[N].pre.file.data))) >= 3
    /\ file # hist[N].pre.file

\* Whether lines holds line text in the scope of a header whose trimmed form
\* is header: after it, with no other header in between.
InSection(lines, header, text) ==
    \E j \in 1..Len(lines) : \E i \in (j + 1)..Len(lines) :
        /\ TrimSpace(lines[j]) = header
        /\ TrimSpace(lines[i]) = text
        /\ \A k \in (j + 1)..(i - 1) : ~IsHeader(lines, k)

\* C16 (as claimed): for cargo, after a successful Enable() on any input
\* file, the [source.crates-io] section contains the line
\* replace-with = 'ustc', however that section was ended in the input.
C16_ReplaceWithInCratesIO ==
    (N >= 1 /\ selected = "cargo" /\ hist[N].op = "Enable" /\ hist[N].err = "nil")
        => /\ file.exists
           /\ InSection(Split(file.data), "[source.crates-io]", "replace-with = 'ustc'")

\* C17 (as claimed): for cargo, after a successful Enable() of a mutator built
\* with URL u, on any input file, the [source.ustc] section contains
\* registry = "u", and a Status() called right after reports u.
C17_RegistryIsCurrentURL ==
    /\ (N >= 1 /\ selected = "cargo" /\ hist[N].op = "Enable" /\ hist[N].err = "nil")
          => /\ file.exists
             /\ InSection(Split(file.data), "[source.ustc]",
                          "registry = \"" \o hist[N].arg[1] \o "\"")
    /\ (selected = "cargo" /\ LastTwo("Enable", "Status") /\ hist[N - 1].err = "nil")
          => (hist[N].enabled /\ hist[N].desc = hist[N - 1].arg[1])

\* The JSON array of strings DockerMirror.Enable is to store for the
\* configured list L.
NormalizedList(L) ==
    JArray([i \in 1..Len(L) |->
               JStr(IF HasPrefix(L[i], "http://") \/ HasPrefix(L[i], "https://")
                    THEN L[i] ELSE "https://" \o L[i])])

\* The map a daemon.json stands for, an absent file standing for the empty
\* object.
ConfigOf(f) == IF f.exists THEN Unmarshal(f.data).config ELSE make

\* Whether the last call was a successful DockerMirror.Enable (not the Docker
\* Desktop variant) on a daemon.json that was absent or a JSON object.
EnabledOverObject ==
    /\ N >= 1 /\ selected = "docker" /\ ~desktop /\ hist[N].op = "Enable"
    /\ hist[N].err = "nil"
    /\ (hist[N].pre.file.exists => hist[N].pre.file.data.kind = "object")

\* C18 (as claimed): after a successful Enable() with configured list L on a
\* daemon.json that is absent or a JSON object, registry-mirrors is exactly
\* L with "https://" put before each entry that has no scheme (same length,
\* same order), whatever it was before, and every other key keeps its value.
C18_MirrorsReplaced ==
    EnabledOverObject =>
        LET old == ConfigOf(hist[N].pre.file).m
            new == ConfigOf(file).m
        IN  /\ file.exists /\ file.data.kind = "object"
            /\ "registry-mirrors" \in DOMAIN new
            /\ new["registry-mirrors"] = NormalizedList(hist[N].arg)
            /\ \A k \in (DOMAIN old) \ {"registry-mirrors"} :
                  k \in DOMAIN new /\ new[k] = old[k]

\* C18 (amended): after a successful Enable() with configured list L on a
\* daemon.json that is absent or a JSON object, every key other than
\* registry-mirrors keeps its value; when L is not empty, registry-mirrors is
\* exactly L with "https://" put before each entry that has no scheme,
\* whatever it was before; when L is empty, registry-mirrors is left as it
\* was (absent, or with its old value).
C18_MirrorsReplacedUnlessEmpty ==
    EnabledOverObject =>
        LET old == ConfigOf(hist[N].pre.file).m
            new == ConfigOf(file).m
        IN  /\ file.exists /\ file.data.kind = "object"
            /\ \A k \in (DOMAIN old) \ {"registry-mirrors"} :
                  k \in DOMAIN new /\ new[k] = old[k]
            /\ IF hist[N].arg # <<>>
               THEN /\ "registry-mirrors" \in DOMAIN new
                    /\ new["registry-mirrors"] = NormalizedList(hist[N].arg)
               ELSE /\ "registry-mirrors" \in DOMAIN new
                          <=> "registry-mirrors" \in DOMAIN old
                    /\ "registry-mirrors" \in DOMAIN old
                          => new["registry-mirrors"] = old["registry-mirrors"]

\* Enable() with a list of entries with and without scheme has run on a
\* daemon.json that held other mirrors and another key.
C18_Witness ==
    /\ EnabledOverObject /\ Len(hist[N].arg) >= 2
    /\ hist[N].pre.file.exists
    /\ "registry-mirrors" \in DOMAIN ConfigOf(hist[N].pre.file).m
    /\ "storage-driver" \in DOMAIN ConfigOf(hist[N].pre.file).m
    /\ ConfigOf(hist[N].pre.file).m["registry-mirrors"] # NormalizedList(hist[N].arg)
    /\ file.exists

\* C19 (as claimed): every Docker operation that meets an existing
\* daemon.json that cannot be parsed recovers locally instead of failing: it
\* returns no error, the unparsable bytes are in the .backup sibling, and
\* Status() answers as for an empty object.
C19_ParseFailureRecovered ==
    (/\ N >= 1 /\ selected = "docker" /\ ~desktop
     /\ hist[N].pre.file.exists /\ hist[N].pre.file.data.kind = "invalid")
        => /\ hist[N].err = "nil"
           /\ backup.exists /\ backup.data = hist[N].pre.file.data
           /\ hist[N].op = "Status"
                 => (~hist[N].enabled /\ hist[N].desc = "default registry")

\* The values of the lines of an .npmrc whose trimmed form starts with
\* "registry=", in file order.
RegistryValues(f) ==
    IF ~f.exists THEN <<>>
    ELSE LET regs == SelectSeq(Split(f.data),
                               LAMBDA l : HasPrefix(TrimSpace(l), "registry="))
         IN  [i \in 1..Len(regs) |-> From(TrimSpace(regs[i]), Len("registry=") + 1)]

\* C20: for npm, after a successful Enable(v) no line whose trimmed form
\* starts with "registry=" carries a value other than v, however many such
\* lines the input had; a successful Status() on a file with such lines
\* reports the value of the first of them.
C20_EveryRegistryLineReplaced ==
    /\ (N >= 1 /\ selected = "npm" /\ hist[N].op = "Enable" /\ hist[N].err = "nil")
          => /\ Len(RegistryValues(file)) >= 1
             /\ \A i \in 1..Len(RegistryValues(file)) :
                   RegistryValues(file)[i] = hist[N].arg[1]
    /\ (/\ N >= 1 /\ selected = "npm" /\ hist[N].op = "Status" /\ hist[N].err = "nil"
        /\ Len(RegistryValues(hist[N].pre.file)) >= 1)
          => (hist[N].enabled /\ hist[N].desc = RegistryValues(hist[N].pre.file)[1])

\* Enable(v) has run on an .npmrc with two registry= lines of different
\* values, neither of them v.
C20_Witness ==
    /\ N >= 1 /\ selected = "npm" /\ hist[N].op = "Enable" /\ hist[N].err = "nil"
    /\ Len(RegistryValues(hist[N].pre.file)) >= 2
    /\ RegistryValues(hist[N].pre.file)[1] # RegistryValues(hist[N].pre.file)[2]
    /\ \A i \in 1..2 : RegistryValues(hist[N].pre.file)[i] # hist[N].arg[1]
    /\ Len(RegistryValues(file)) >= 2

\* C21: for Go, the result of Status() is a function of the GOPROXY variable
\* alone, whatever the rc file holds and whether it exists: (true, value,
\* nil) when the value is not empty, (false, "default proxy", nil) otherwise.
C21_StatusFromEnvironmentOnly ==
    (N >= 1 /\ selected = "go" /\ hist[N].op = "Status")
        => LET value == IF hist[N].pre.goproxy.set THEN hist[N].pre.goproxy.val
                        ELSE ""
           IN  /\ hist[N].err = "nil"
               /\ hist[N].enabled = (value # "")
               /\ hist[N].desc = IF value # "" THEN value ELSE "default proxy"

\* Status() has run in a state where GOPROXY and the rc file disagree: the
\* variable set and no export line on disk, or the variable unset and an
\* export line on disk.
C21_Witness ==
    /\ N >= 2 /\ selected = "go" /\ hist[N].op = "Status"
    /\ hist[N].pre.goproxy.set # HasManaged("go", hist[N].pre.file)
    /\ hist[N - 1].op \in {"Enable", "Disable"}

\* Whether line i of lines is blank.
IsBlank(lines, i) == TrimSpace(lines[i]) = ""

\* The positions of lines where a blank line stands between two lines that
\* are neither blank nor an index-url line.
BlankBetweenForeign(lines) ==
    {i \in 2..(Len(lines) - 1) :
        /\ IsBlank(lines, i)
        /\ \A j \in {i - 1, i + 1} :
              ~IsBlank(lines, j) /\ ~HasPrefix(TrimSpace(lines[j]), "index-url")}

\* Whether the last call was a successful Enable of mutator t.
Enabled(t) ==
    N >= 1 /\ selected = t /\ hist[N].op = "Enable" /\ hist[N].err = "nil"

\* C22 (as claimed): pip Enable() keeps the blank lines of the input among
\* the lines it does not match: a blank line between two foreign lines is
\* still between them afterwards.
C22_PipKeepsBlankLines ==
    Enabled("pip") =>
        LET pre == Split(Bytes(hist[N].pre.file))
            post == Split(file.data)
        IN  \A i \in BlankBetweenForeign(pre) :
               \E j \in 2..(Len(post) - 1) :
                  /\ post[j - 1] = pre[i - 1]
                  /\ IsBlank(post, j)
                  /\ post[j + 1] = pre[i + 1]

\* C22 (amended): pip Enable() drops every blank line of the input, as npm
\* Enable() does: the file either writes has no blank line.  cargo Enable()
\* drops every blank line of the input but one at the very first line, and
\* the file it writes has blank lines only there and directly before a
\* [source.crates-io] or [source.ustc] header.
C22_BlankLinesDropped ==
    /\ (Enabled("pip") \/ Enabled("npm"))
          => \A i \in 1..(Len(Split(file.data)) - 1) : ~IsBlank(Split(file.data), i)
    /\ Enabled("cargo")
          => LET post == Split(file.data)
             IN  \A i \in 1..(Len(post) - 1) :
                    IsBlank(post, i)
                       => \/ i = 1 /\ IsBlank(Split(Bytes(hist[N].pre.file)), 1)
                          \/ TrimSpace(post[i + 1])
                                \in {"[source.crates-io]", "[source.ustc]"}

\* pip Enable() has run on a file with a blank line between two foreign
\* lines, and the two lines now stand next to each other.
C22_Witness ==
    /\ Enabled("pip") /\ hist[N].pre.file.exists
    /\ LET pre == Split(hist[N].pre.file.data)
           post == Split(file.data)
       IN  \E i \in BlankBetweenForeign(pre) : \E j \in 1..(Len(post) - 1) :
              post[j] = pre[i - 1] /\ post[j + 1] = pre[i + 1]

\* Whether the last three calls were successful Enable calls of mutator t
\* with the same value.
EnabledThrice(t) ==
    /\ N >= 3 /\ selected = t
    /\ \A i \in (N - 2)..N :
          hist[i].op = "Enable" /\ hist[i].err = "nil" /\ hist[i].arg = hist[N].arg

C24_GoCyclesDoNotGrow ==
    (/\ N = 4 /\ selected = "go"
     /\ Bytes(hist[1].pre.file) = ""
     /\ \A i \in 1..4 : hist[i].err = "nil"
     /\ hist[1].op = "Enable" /\ hist[2].op = "Disable"
     /\ hist[3].op = "Enable" /\ hist[4].op = "Disable")
        => file = hist[3].pre.file

\* C25 (as claimed): Docker Enable() with a non-empty mirror list ends
\* normally on every content of an existing daemon.json, content that is
\* JSON but no object included: it returns nil or an error value and never
\* aborts, and on nil daemon.json is a JSON object with registry-mirrors set.
C25_EnableEndsNormally ==
    (/\ N >= 1 /\ selected = "docker" /\ ~desktop /\ hist[N].op = "Enable"
     /\ hist[N].arg # <<>> /\ hist[N].pre.file.exists)
        => /\ hist[N].err # "panic"
           /\ hist[N].err = "nil"
                 => /\ file.exists /\ file.data.kind = "object"
                    /\ "registry-mirrors" \in DocKeys(file.data)

====
